---- MODULE Spec2Model ----
(***************************************************************************)
(* Framizer: the frame sequencer of src/main.rs.                           *)
(*                                                                         *)
(* main() reads traces (timestamp, samples) one at a time and writes       *)
(* fixed-length frames (FRAME_LENGTH ticks each) to the ring file,         *)
(* advancing the watermark frame_timestamp.  One step of the model is one  *)
(* iteration of the `while let Some(trace)` loop of main: the staleness    *)
(* check, the gap-filling loop, and the single-window or multi-window      *)
(* emission, with every write_ring_item call it makes.                     *)
(*                                                                         *)
(* Machine integers.  frame_timestamp and Trace.timestamp are u64.  TLC    *)
(* cannot hold 2^64, so the u64 range is scaled to TimestampBits bits;     *)
(* like 2^64 the scaled modulus is a multiple of FRAME_LENGTH, which is    *)
(* all the sequencer's arithmetic depends on.  An overflowing u64          *)
(* addition panics when the build has overflow checks (debug profile) and  *)
(* wraps when it has not (release profile); overflow_checks records which  *)
(* build is running.                                                       *)
(*                                                                         *)
(* Three specifications.  Spec: runs within MaxFrames windows.  SpecWide:  *)
(* runs whose timeline reaches the end of the u64 range.  SpecIO: runs in  *)
(* which traces.dat may end within a record and a read or a write may      *)
(* fail.                                                                   *)
(***************************************************************************)
EXTENDS Integers, Sequences, FiniteSets, TLC

VARIABLES
    frame_timestamp,   \* main: the watermark (line 65)
    frames,            \* frames.evt: the frames written so far, in order
    fed,               \* traces.dat: the traces read so far, each with the
                       \* watermark and output length before and after it
    status,            \* where main is: "running", "done", "panicked", "hung",
                       \* "aborted" (a panic on an I/O error)
    overflow_checks,   \* TRUE: overflow panics (debug); FALSE: it wraps (release)
    last_io            \* how the last read_next_trace or write_ring_item that
                       \* did not go through ended, and the traces read and
                       \* frames written before it

vars == <<frame_timestamp, frames, fed, status, overflow_checks, last_io>>

----------------------------------------------------------------------------
(* Constants and bounds *)

FRAME_LENGTH == 512

\* Width of the scaled u64.
TimestampBits == 13

\* Traces read in one run (Spec) and frames written in one run (Spec).
MaxTraces == 3
MaxFrames == 6

\* Traces read in one run of SpecWide, whose timeline reaches the end of
\* the u64 range.
MaxTracesWide == 2

\* Traces read in one run of SpecIO, whose reads and writes may fail.
MaxTracesIO == 2

U64_MOD == 2 ^ TimestampBits
U16_MOD == 2 ^ 16

----------------------------------------------------------------------------
(* Machine arithmetic *)

\* a + b in u64 overflows
AddOverflows(a, b) == a + b >= U64_MOD

\* the wrapped sum
WrappingAdd(a, b) == (a + b) % U64_MOD

\* a - b in u64 underflows
SubOverflows(a, b) == a < b

WrappingSub(a, b) == (a - b + U64_MOD) % U64_MOD

\* `x as u16`
AsU16(x) == x % U16_MOD

\* `x as u32`, computed on 16-bit halves (2^32 itself is out of TLC's range)
AsU32(x) == (x % U16_MOD) + U16_MOD * ((x \div U16_MOD) % U16_MOD)

----------------------------------------------------------------------------
(* Data model *)

\* Frame::new
Frame_new(start) ==
    [frame_start |-> start, data_size |-> 0, data_offset |-> 0, data |-> << >>]

\* The i-th sample (1-based) of the trace read with timestamp t: a u16 that
\* tells the traces and the positions apart.
SampleAt(t, i) == (t + i) % U16_MOD

\* struct Trace, as read_next_trace builds it
Trace(t, n) == [timestamp |-> t, data |-> [i \in 1..n |-> SampleAt(t, i)]]

\* Trace start times: in the first windows at offsets 0, 510 and 511, and in
\* the last two windows of the u64 range.
Timestamps ==
    {0, 510, FRAME_LENGTH, 3 * FRAME_LENGTH - 1,
     U64_MOD - FRAME_LENGTH - 2, U64_MOD - 1}

\* Sample counts: none, a few, and more than two windows' worth (from offset
\* 510 the last frame is then exactly full, from offset 0 it is not).
Lengths == {0, 2, 4, 2 * FRAME_LENGTH + 2}

Traces == { Trace(t, n) : t \in Timestamps, n \in Lengths }

----------------------------------------------------------------------------
(* The sequencer: one iteration of main's loop, as a function of the       *)
(* watermark and the trace.  A sequencer state is [w, out, end]: the       *)
(* watermark, the frames written in this iteration, and how it ended       *)
(* ("ok" while it runs).                                                   *)

\* Mutant: the item is put in front of what this iteration wrote before.
write_ring_item_InFront(st, frame) == [st EXCEPT !.out = <<frame>> \o @]

\* write_ring_item(&mut ring_file, &frame): one ring item per frame, whose
\* header carries frame_start and whose body is data_size, data_offset and
\* the samples.
write_ring_item(st, frame) == [st EXCEPT !.out = Append(@, frame)]

\* frame_timestamp += FRAME_LENGTH
Advance(st, checks) ==
    IF AddOverflows(st.w, FRAME_LENGTH)
    THEN IF checks THEN [st EXCEPT !.end = "panic"]
                   ELSE [st EXCEPT !.w = WrappingAdd(st.w, FRAME_LENGTH)]
    ELSE [st EXCEPT !.w = st.w + FRAME_LENGTH]

\* Mutant: a trace is stale only a whole frame behind the watermark.
Stale_FrameLate(timestamp, w) == timestamp + FRAME_LENGTH < w

\* if trace.timestamp < frame_timestamp
Stale(timestamp, w) == timestamp < w

\* Mutant: dropping a trace closes the current frame.
Dropped_Advances(w) ==
    [w |-> w + FRAME_LENGTH, out |-> << >>, end |-> "dropped"]

\* Mutant: dropping a trace starts the timeline again.
Dropped_Resets(w) == [w |-> 0, out |-> << >>, end |-> "dropped"]

\* { println!("Dropping trace ..."); continue; }
Dropped(w) == [w |-> w, out |-> << >>, end |-> "dropped"]

\* Mutant: > for >=.
BeyondFrame_Strict(timestamp, w) == timestamp > WrappingAdd(w, FRAME_LENGTH)

\* trace.timestamp >= frame_timestamp + FRAME_LENGTH, the sum wrapped
BeyondFrame(timestamp, w) == timestamp >= WrappingAdd(w, FRAME_LENGTH)

\* while trace.timestamp >= frame_timestamp + FRAME_LENGTH { emit an empty
\* frame; frame_timestamp += FRAME_LENGTH }.  The loop's state is the
\* watermark alone: when a watermark comes back (seen), the loop never ends.
RECURSIVE GapFill(_, _, _, _)
GapFill(st, timestamp, seen, checks) ==
    IF st.end # "ok" THEN st
    ELSE IF st.w \in seen THEN [st EXCEPT !.end = "hang"]
    ELSE IF AddOverflows(st.w, FRAME_LENGTH) /\ checks
         THEN [st EXCEPT !.end = "panic"]
    ELSE IF BeyondFrame(timestamp, st.w)
         THEN GapFill(Advance(write_ring_item(st, Frame_new(st.w)), checks),
                      timestamp, seen \cup {st.w}, checks)
    ELSE st

\* Mutant: the watermark is not subtracted.
DataOffset_NoWatermark(timestamp, w) == timestamp

\* let data_offset = trace.timestamp - frame_timestamp
DataOffset(timestamp, w) == WrappingSub(timestamp, w)

\* Mutant: the test forgets the offset.
FitsInFrame_NoOffset(len, data_offset) == len < FRAME_LENGTH

\* if ((trace.data.len() + data_offset as usize) as u64) < FRAME_LENGTH
FitsInFrame(len, data_offset) == len + data_offset < FRAME_LENGTH

\* Mutant: the single-window branch does not advance the watermark.
SingleFrame_NoAdvance(st, trace, data_offset, checks) ==
    write_ring_item(st, [frame_start |-> st.w,
                         data_size   |-> AsU32(Len(trace.data)),
                         data_offset |-> AsU16(data_offset),
                         data        |-> trace.data])

\* Mutant: a trace without samples gets no frame and closes no window.
SingleFrame_SkipsEmpty(st, trace, data_offset, checks) ==
    IF Len(trace.data) = 0 THEN st
    ELSE Advance(write_ring_item(st, [frame_start |-> st.w,
                                      data_size   |-> AsU32(Len(trace.data)),
                                      data_offset |-> AsU16(data_offset),
                                      data        |-> trace.data]), checks)

\* The single-window branch.
SingleFrame(st, trace, data_offset, checks) ==
    LET f == [frame_start |-> st.w,
              data_size   |-> AsU32(Len(trace.data)),
              data_offset |-> AsU16(data_offset),
              data        |-> trace.data]
    IN Advance(write_ring_item(st, f), checks)

\* Mutant: the first frame takes a whole window of samples.
FirstFrameSize_Whole(data_offset) == AsU32(FRAME_LENGTH)

\* Mutant: the first frame stops one tick before the end of its window.
FirstFrameSize_OneShort(data_offset) ==
    AsU32(WrappingSub(FRAME_LENGTH, data_offset)) - 1

\* first_frame.data_size = (FRAME_LENGTH - data_offset) as u32
FirstFrameSize(data_offset) == AsU32(WrappingSub(FRAME_LENGTH, data_offset))

\* Mutant: the loop stops with one sample left.
MoreToEmit_OneShort(cursor, len) == cursor + 1 < len

\* while cursor < trace.data.len()
MoreToEmit(cursor, len) == cursor < len

\* Mutant: every overflow frame declares a full window of samples.
OverflowFrameSize_AlwaysFull(len, cursor) == AsU32(FRAME_LENGTH)

\* frame.data_size of an overflow frame
OverflowFrameSize(len, cursor) ==
    IF len - cursor > FRAME_LENGTH THEN AsU32(FRAME_LENGTH)
                                   ELSE AsU32(len - cursor)

\* Mutant: the slices start one sample early.
OverflowFrameData_OneEarly(data, cursor) ==
    IF Len(data) - cursor > FRAME_LENGTH
    THEN SubSeq(data, cursor, cursor + FRAME_LENGTH - 1)
    ELSE SubSeq(data, cursor, Len(data) - 1)

\* frame.data of an overflow frame: &trace.data[cursor .. cursor+FRAME_LENGTH]
\* or &trace.data[cursor..]
OverflowFrameData(data, cursor) ==
    IF Len(data) - cursor > FRAME_LENGTH
    THEN SubSeq(data, cursor + 1, cursor + FRAME_LENGTH)
    ELSE SubSeq(data, cursor + 1, Len(data))

\* The continuation loop.
RECURSIVE OverflowFrames(_, _, _, _)
OverflowFrames(st, data, cursor, checks) ==
    IF st.end # "ok" \/ ~MoreToEmit(cursor, Len(data)) THEN st
    ELSE LET frame == [frame_start |-> st.w,
                       data_size   |-> OverflowFrameSize(Len(data), cursor),
                       data_offset |-> 0,
                       data        |-> OverflowFrameData(data, cursor)]
         IN OverflowFrames(Advance(write_ring_item(st, frame), checks),
                           data, cursor + frame.data_size, checks)

\* Mutant: the watermark stays where it is after the first frame.
MultiFrame_NoFirstAdvance(st, trace, data_offset, checks) ==
    LET size == FirstFrameSize(data_offset)
        first_frame == [frame_start |-> st.w,
                        data_size   |-> size,
                        data_offset |-> AsU16(data_offset),
                        data        |-> SubSeq(trace.data, 1, size)]
    IN OverflowFrames(write_ring_item(st, first_frame),
                      trace.data, size, checks)

\* The multi-window branch: the first frame, then the overflow frames.
MultiFrame(st, trace, data_offset, checks) ==
    IF SubOverflows(FRAME_LENGTH, data_offset) /\ checks
    THEN [st EXCEPT !.end = "panic"]
    ELSE
    LET size == FirstFrameSize(data_offset)
    IN IF size > Len(trace.data)
       THEN [st EXCEPT !.end = "panic"]      \* slice index out of range
       ELSE LET first_frame == [frame_start |-> st.w,
                                data_size   |-> size,
                                data_offset |-> AsU16(data_offset),
                                data        |-> SubSeq(trace.data, 1, size)]
            IN OverflowFrames(
                   Advance(write_ring_item(st, first_frame), checks),
                   trace.data, size, checks)

\* From "The trace starts in this frame" to the end of the loop body.
Place(st, trace, checks) ==
    IF st.end # "ok" THEN st
    ELSE IF SubOverflows(trace.timestamp, st.w) /\ checks
         THEN [st EXCEPT !.end = "panic"]
    ELSE LET data_offset == DataOffset(trace.timestamp, st.w)
         IN IF FitsInFrame(Len(trace.data), data_offset)
            THEN SingleFrame(st, trace, data_offset, checks)
            ELSE MultiFrame(st, trace, data_offset, checks)

\* A trace that passed the staleness check.
Sequence(w, trace, checks) ==
    Place(GapFill([w |-> w, out |-> << >>, end |-> "ok"],
                  trace.timestamp, {}, checks),
          trace, checks)

----------------------------------------------------------------------------
(* The run *)

Init ==
    /\ frame_timestamp = 0
    /\ frames = << >>
    /\ fed = << >>
    /\ status = "running"
    /\ overflow_checks \in BOOLEAN
    /\ last_io = [kind |-> "open", traces |-> 0, frames |-> 0]

\* What the run keeps of a trace it has read.
FedEntry(trace, dropped) ==
    [trace |-> trace, dropped |-> dropped,
     w0 |-> frame_timestamp, w1 |-> frame_timestamp',
     lo |-> Len(frames), hi |-> Len(frames')]

\* The trace is stale: a message, no frame, the next trace.
Drop(trace, maxTraces) ==
    /\ status = "running"
    /\ Len(fed) < maxTraces
    /\ Stale(trace.timestamp, frame_timestamp)
    /\ LET r == Dropped(frame_timestamp)
       IN /\ frames' = frames \o r.out
          /\ frame_timestamp' = r.w
    /\ fed' = Append(fed, FedEntry(trace, TRUE))
    /\ UNCHANGED <<status, overflow_checks, last_io>>

\* The trace is sequenced.
Feed(trace, maxTraces, maxFrames) ==
    /\ status = "running"
    /\ Len(fed) < maxTraces
    /\ ~Stale(trace.timestamp, frame_timestamp)
    /\ LET r == Sequence(frame_timestamp, trace, overflow_checks)
       IN /\ Len(frames) + Len(r.out) <= maxFrames
          /\ frames' = frames \o r.out
          /\ frame_timestamp' = r.w
          /\ status' = CASE r.end = "panic" -> "panicked"
                         [] r.end = "hang"  -> "hung"
                         [] OTHER           -> "running"
    /\ fed' = Append(fed, FedEntry(trace, FALSE))
    /\ UNCHANGED <<overflow_checks, last_io>>

\* read_next_trace returns None at the end of the file: main returns.
EndOfStream ==
    /\ status = "running"
    /\ status' = "done"
    /\ last_io' = [kind |-> "eof", traces |-> Len(fed), frames |-> Len(frames)]
    /\ UNCHANGED <<frame_timestamp, frames, fed, overflow_checks>>

\* Runs whose timeline stays within MaxFrames windows.
Next ==
    \/ \E trace \in Traces : Drop(trace, MaxTraces)
    \/ \E trace \in Traces : Feed(trace, MaxTraces, MaxFrames)
    \/ EndOfStream

Spec == Init /\ [][Next]_vars

\* Runs whose timeline may reach the end of the u64 range.
WideFrames == (MaxTracesWide + 1) * (U64_MOD \div FRAME_LENGTH + 4)

NextWide ==
    \/ \E trace \in Traces : Drop(trace, MaxTracesWide)
    \/ \E trace \in Traces : Feed(trace, MaxTracesWide, WideFrames)
    \/ EndOfStream

SpecWide == Init /\ [][NextWide]_vars

----------------------------------------------------------------------------
(* Input and output that fail *)

\* The bytes of a record of traces.dat: an 8-byte timestamp, a 4-byte
\* sample count and 2 bytes for each sample.
RecordLength(record) == 12 + 2 * Len(record.data)

\* The read_exact calls read_next_trace makes for a record: the timestamp,
\* the count and each sample.
Reads(record) == 2 + Len(record.data)

\* Mutant: a record cut short within its samples is returned with the
\* samples that were there.
read_next_trace_Partial(record, avail, fault) ==
    IF avail < 12 THEN [kind |-> "None"]
    ELSE LET present == (avail - 12) \div 2
             n == IF present < Len(record.data) THEN present
                                                ELSE Len(record.data)
         IN [kind |-> "Some",
             trace |-> [timestamp |-> record.timestamp,
                        data |-> SubSeq(record.data, 1, n)]]

\* read_next_trace on a file that holds the first avail bytes of record
\* and nothing after them, and whose fault-th read_exact call (0: none)
\* fails with an error other than UnexpectedEof.
read_next_trace(record, avail, fault) ==
    IF fault = 1 THEN [kind |-> "panic"]
    ELSE IF avail < 8 THEN [kind |-> "None"]
    ELSE IF fault = 2 THEN [kind |-> "panic"]
    ELSE IF avail < 12 THEN [kind |-> "None"]
    ELSE LET data_size == Len(record.data)
             present == (avail - 12) \div 2      \* whole samples in the file
             failing == fault - 2                \* the sample whose read fails
         IN IF failing >= 1 /\ failing <= data_size /\ failing <= present + 1
            THEN [kind |-> "panic"]
            ELSE IF present < data_size THEN [kind |-> "None"]
            ELSE [kind |-> "Some",
                  trace |-> [timestamp |-> record.timestamp,
                             data |-> SubSeq(record.data, 1, data_size)]]

\* Mutant: the error of a write is ignored.
Expect_Ignore(ok) == "running"

\* .expect(..) on the Result of write_ring_item: a panic on Err.
Expect(ok) == IF ok THEN "running" ELSE "aborted"

\* The places a record may be cut at: within the timestamp, within the
\* count, within the first sample and within or just before the last.
Avails(record) ==
    {1, 7, 8, 11, 12, 13, RecordLength(record) - 2, RecordLength(record) - 1}
        \cap 1..(RecordLength(record) - 1)

\* The reads that may fail: of the timestamp, the count, the first sample
\* and the last.
Faults(record) == {1, 2, 3, Reads(record)} \cap 1..Reads(record)

\* One call of read_next_trace from the loop head and what main does with
\* its result.
ReadInput(record, avail, fault) ==
    /\ status = "running"
    /\ LET got == read_next_trace(record, avail, fault)
           at == [traces |-> Len(fed), frames |-> Len(frames)]
       IN CASE got.kind = "panic" ->
                 /\ status' = "aborted"
                 /\ last_io' = [kind |-> "read_error", traces |-> at.traces,
                                frames |-> at.frames]
                 /\ UNCHANGED <<frame_timestamp, frames, fed>>
            [] got.kind = "None" ->
                 /\ status' = "done"
                 /\ last_io' = [kind |-> IF avail = 0 THEN "eof"
                                                      ELSE "truncated",
                                traces |-> at.traces, frames |-> at.frames]
                 /\ UNCHANGED <<frame_timestamp, frames, fed>>
            [] got.kind = "Some" ->
                 LET stale == Stale(got.trace.timestamp, frame_timestamp)
                     r == IF stale THEN Dropped(frame_timestamp)
                          ELSE Sequence(frame_timestamp, got.trace,
                                        overflow_checks)
                 IN /\ Len(fed) < MaxTracesIO
                    /\ Len(frames) + Len(r.out) <= MaxFrames
                    /\ frames' = frames \o r.out
                    /\ frame_timestamp' = r.w
                    /\ status' = CASE r.end = "panic" -> "panicked"
                                   [] r.end = "hang"  -> "hung"
                                   [] OTHER           -> "running"
                    /\ fed' = Append(fed, FedEntry(got.trace, stale))
                    /\ last_io' = [kind |-> IF avail < RecordLength(record)
                                            THEN "truncated" ELSE "open",
                                   traces |-> at.traces, frames |-> at.frames]
    /\ UNCHANGED overflow_checks

\* The file ends within a record.
TruncatedInput(record, avail) ==
    /\ avail > 0
    /\ avail < RecordLength(record)
    /\ ReadInput(record, avail, 0)

\* A read of a record that is all there fails with an I/O error.
ReadFault(record, fault) ==
    /\ fault >= 1
    /\ fault <= Reads(record)
    /\ ReadInput(record, RecordLength(record), fault)

\* The trace is sequenced and its k-th write_ring_item returns Err: the
\* frames before it are in the file, frame_timestamp is that of the frame
\* in hand.
WriteFault(trace, k) ==
    /\ status = "running"
    /\ Len(fed) < MaxTracesIO
    /\ ~Stale(trace.timestamp, frame_timestamp)
    /\ LET r == Sequence(frame_timestamp, trace, overflow_checks)
       IN /\ r.end = "ok"
          /\ Len(frames) + Len(r.out) <= MaxFrames
          /\ k \in 1..Len(r.out)
          /\ frames' = frames \o SubSeq(r.out, 1, k - 1)
          /\ frame_timestamp' = r.out[k].frame_start
          /\ status' = Expect(FALSE)
          /\ last_io' = [kind |-> "write_error", traces |-> Len(fed) + 1,
                         frames |-> Len(frames) + k - 1]
    /\ fed' = Append(fed, FedEntry(trace, FALSE))
    /\ UNCHANGED overflow_checks

NextIO ==
    \/ \E trace \in Traces : Drop(trace, MaxTracesIO)
    \/ \E trace \in Traces : Feed(trace, MaxTracesIO, MaxFrames)
    \/ EndOfStream
    \/ \E record \in Traces : \E avail \in Avails(record) :
          TruncatedInput(record, avail)
    \/ \E record \in Traces : \E fault \in Faults(record) :
          ReadFault(record, fault)
    \/ \E trace \in Traces : \E k \in 1..MaxFrames : WriteFault(trace, k)

SpecIO == Init /\ [][NextIO]_vars

----------------------------------------------------------------------------
(* Reading the run's record *)

\* The traces that were sequenced, by their place in the input.
Accepted == { i \in 1..Len(fed) : ~fed[i].dropped }

\* The window a tick falls in, and its place there.
WindowOf(tick) == FRAME_LENGTH * (tick \div FRAME_LENGTH)
FineTime(tick) == tick % FRAME_LENGTH

\* The empty-fill frames a trace fed at watermark w0 needs.
GapCount(e) == (e.trace.timestamp \div FRAME_LENGTH) - (e.w0 \div FRAME_LENGTH)

\* The frames written for a trace that carry it: those of its own window
\* and later, as opposed to the empty frames of the windows before it.
DataFrames(e) ==
    { k \in (e.lo + 1)..e.hi :
        frames[k].frame_start + FRAME_LENGTH > e.trace.timestamp }

\* The samples of frames lo+1 .. hi that are in the set ks, in output order.
RECURSIVE ConcatData(_, _, _)
ConcatData(lo, hi, ks) ==
    IF hi <= lo THEN << >>
    ELSE ConcatData(lo, hi - 1, ks)
            \o (IF hi \in ks THEN frames[hi].data ELSE << >>)

\* The tick the first sample of frame k sits at, and the tick after its last.
FirstTick(k) == frames[k].frame_start + frames[k].data_offset
EndTick(k) == FirstTick(k) + Len(frames[k].data)

\* The number of samples in frames lo+1 .. hi.
RECURSIVE SampleCount(_, _)
SampleCount(lo, hi) ==
    IF hi <= lo THEN 0 ELSE SampleCount(lo, hi - 1) + Len(frames[hi].data)

----------------------------------------------------------------------------
(* C1  Contiguity: the k-th frame written (k = 0, 1, 2, ...) has           *)
(* frame_start = k * 512, whatever traces were fed and in whatever order,  *)
(* dropped ones included, and on every path that writes a frame.           *)
C1_Contiguity ==
    \A k \in 1..Len(frames) : frames[k].frame_start = (k - 1) * FRAME_LENGTH

\* A run with a dropped trace, an empty-fill frame and a trace spread over
\* three frames.
C1_Witness ==
    /\ \E i \in 1..Len(fed) : fed[i].dropped
    /\ \E i \in Accepted : GapCount(fed[i]) > 0 /\ fed[i].hi > fed[i].lo
    /\ \E i \in Accepted : Cardinality(DataFrames(fed[i])) >= 3

(* C2  Coverage: for every trace that was not dropped, the samples of the  *)
(* data frames written for it, concatenated in output order, are exactly   *)
(* the trace's samples.                                                    *)
C2_Coverage ==
    \A i \in Accepted :
        ConcatData(fed[i].lo, fed[i].hi, DataFrames(fed[i])) = fed[i].trace.data

\* A trace behind empty-fill frames whose samples went to several frames.
C2_Witness ==
    \E i \in Accepted :
        /\ GapCount(fed[i]) > 0
        /\ Cardinality(DataFrames(fed[i])) >= 3
        /\ Len(fed[i].trace.data) > 2 * FRAME_LENGTH

(* C3  Placement: the i-th sample (0-based) of a trace with timestamp t    *)
(* that was not dropped is carried by exactly one frame, the one whose     *)
(* frame_start is 512 * floor((t + i) / 512), at the position j with       *)
(* data_offset + j = (t + i) mod 512.                                      *)
(* Stated frame by frame.  Sample i of the trace sits at tick t + i.  A    *)
(* frame of the trace holds the ticks FirstTick .. EndTick - 1 of its own  *)
(* window, and they are within the trace; its samples are the trace's      *)
(* samples of those ticks, so that sample i is at position                 *)
(* j = t + i - frame_start - data_offset; no two frames of the trace hold  *)
(* the same tick, and together they hold as many samples as the trace has. *)
C3_Placement ==
    \A n \in Accepted :
        LET e == fed[n]
            t == e.trace.timestamp
            ks == { k \in (e.lo + 1)..e.hi : Len(frames[k].data) > 0 }
        IN /\ \A k \in ks :
                /\ frames[k].frame_start = WindowOf(FirstTick(k))
                /\ frames[k].frame_start = WindowOf(EndTick(k) - 1)
                /\ t <= FirstTick(k)
                /\ EndTick(k) <= t + Len(e.trace.data)
                /\ frames[k].data =
                      SubSeq(e.trace.data, FirstTick(k) - t + 1, EndTick(k) - t)
           /\ \A k1, k2 \in ks :
                k1 < k2 => EndTick(k1) <= FirstTick(k2)
           /\ SampleCount(e.lo, e.hi) = Len(e.trace.data)

\* A trace that starts late in its window and runs over two boundaries.
C3_Witness ==
    \E n \in Accepted :
        /\ FineTime(fed[n].trace.timestamp) = FRAME_LENGTH - 2
        /\ Len(fed[n].trace.data) > 2 * FRAME_LENGTH
        /\ fed[n].hi - fed[n].lo >= 3

(* C4  Bounds: every frame written, on every path, has                     *)
(* 0 <= data_offset < 512 and data_offset + data_size <= 512.              *)
C4_Bounds ==
    \A k \in 1..Len(frames) :
        /\ 0 <= frames[k].data_offset
        /\ frames[k].data_offset < FRAME_LENGTH
        /\ frames[k].data_offset + frames[k].data_size <= FRAME_LENGTH

\* An empty-fill frame, a frame filled from a non-zero offset to the last
\* tick of its window, and a full overflow frame were written.
C4_Witness ==
    /\ \E i \in Accepted : GapCount(fed[i]) > 0 /\ fed[i].hi > fed[i].lo
    /\ \E k \in 1..Len(frames) :
          /\ frames[k].data_offset > 0
          /\ frames[k].data_offset + frames[k].data_size = FRAME_LENGTH
    /\ \E k \in 1..Len(frames) :
          frames[k].data_offset = 0 /\ frames[k].data_size = FRAME_LENGTH

(* C5  Rejection: a trace whose timestamp is below the watermark W writes  *)
(* no frame and leaves W as it is, and what follows is processed as if the *)
(* rejected trace had never been fed: the output and the watermark are     *)
(* those of the run fed the accepted traces alone.                         *)

\* The traces that were sequenced, in input order.
AcceptedTraces == SelectSeq(fed, LAMBDA e : ~e.dropped)

\* The output and the watermark of a run fed the first n of them and
\* nothing else.
RECURSIVE RunOfAccepted(_)
RunOfAccepted(n) ==
    IF n = 0 THEN [w |-> 0, out |-> << >>]
    ELSE LET before == RunOfAccepted(n - 1)
             r == Sequence(before.w, AcceptedTraces[n].trace, overflow_checks)
         IN [w |-> r.w, out |-> before.out \o r.out]

C5_Rejection ==
    /\ \A i \in 1..Len(fed) :
          fed[i].trace.timestamp < fed[i].w0 =>
              /\ fed[i].dropped
              /\ fed[i].hi = fed[i].lo
              /\ fed[i].w1 = fed[i].w0
    /\ frames = RunOfAccepted(Len(AcceptedTraces)).out
    /\ frame_timestamp = RunOfAccepted(Len(AcceptedTraces)).w

\* A trace was accepted, the next rejected, and a third accepted after it.
C5_Witness ==
    \E i \in 1..Len(fed) :
        /\ i > 1 /\ i < Len(fed)
        /\ fed[i].dropped
        /\ ~fed[i - 1].dropped
        /\ ~fed[i + 1].dropped
        /\ fed[i + 1].hi > fed[i + 1].lo

(* C6  Empty-frame count: a trace with timestamp t that is not dropped,    *)
(* fed at watermark W, is preceded by exactly (t div 512) - (W div 512)    *)
(* empty frames (no samples, data_size 0, data_offset 0), one per window   *)
(* from W on, and the frame after them is the first that carries the       *)
(* trace; for the first trace of a run that is t div 512 empty frames, for *)
(* the windows 0, 512, ..., 512 * (t div 512 - 1).                         *)
C6_EmptyFrameCount ==
    /\ \A i \in Accepted :
          LET e == fed[i]
              g == GapCount(e)
          IN /\ g >= 0
             /\ e.hi > e.lo + g
             /\ \A k \in 1..g :
                   /\ frames[e.lo + k].frame_start
                         = e.w0 + (k - 1) * FRAME_LENGTH
                   /\ frames[e.lo + k].data_size = 0
                   /\ frames[e.lo + k].data_offset = 0
                   /\ frames[e.lo + k].data = << >>
             /\ frames[e.lo + g + 1].frame_start = WindowOf(e.trace.timestamp)
             /\ frames[e.lo + g + 1].data_offset = FineTime(e.trace.timestamp)
             /\ Len(e.trace.data) > 0 => Len(frames[e.lo + g + 1].data) > 0
    /\ Len(fed) > 0 =>
          /\ ~fed[1].dropped
          /\ \A k \in 1..(fed[1].trace.timestamp \div FRAME_LENGTH) :
                frames[k] = [frame_start |-> (k - 1) * FRAME_LENGTH,
                             data_size |-> 0, data_offset |-> 0,
                             data |-> << >>]
          /\ frames[(fed[1].trace.timestamp \div FRAME_LENGTH) + 1].data_offset
                = FineTime(fed[1].trace.timestamp)

\* A trace fed with the watermark already advanced came after an empty
\* window.
C6_Witness ==
    \E i \in Accepted :
        /\ fed[i].w0 > 0
        /\ GapCount(fed[i]) > 0
        /\ Len(fed[i].trace.data) > 0
        /\ fed[i].hi > fed[i].lo + GapCount(fed[i])

(* C7  One trace per frame: no frame carries samples of two traces, no two *)
(* traces are both accepted with start times in the same 512-tick window,  *)
(* and the second of two such traces is rejected by the staleness check.   *)
C7_OneTracePerFrame ==
    /\ \A i, j \in Accepted :
          i < j => WindowOf(fed[i].trace.timestamp)
                      # WindowOf(fed[j].trace.timestamp)
    /\ \A i, j \in 1..Len(fed) :
          (/\ i < j
           /\ ~fed[i].dropped
           /\ WindowOf(fed[i].trace.timestamp) = WindowOf(fed[j].trace.timestamp))
          => (fed[j].dropped /\ fed[j].trace.timestamp < fed[j].w0)
    /\ \A k \in 1..Len(frames) :
          LET owners == { i \in 1..Len(fed) : fed[i].lo < k /\ k <= fed[i].hi }
          IN /\ Cardinality(owners) = 1
             /\ \A i \in owners :
                   LET t == fed[i].trace.timestamp
                   IN /\ ~fed[i].dropped
                      /\ Len(frames[k].data) > 0 =>
                            /\ t <= FirstTick(k)
                            /\ EndTick(k) <= t + Len(fed[i].trace.data)
                            /\ frames[k].data =
                                  SubSeq(fed[i].trace.data,
                                         FirstTick(k) - t + 1, EndTick(k) - t)

\* A second trace started in the window of an accepted one, and frames of
\* two accepted traces are in the output.
C7_Witness ==
    /\ \E i, j \in 1..Len(fed) :
          /\ i < j
          /\ ~fed[i].dropped
          /\ WindowOf(fed[i].trace.timestamp) = WindowOf(fed[j].trace.timestamp)
    /\ \E i, j \in Accepted :
          /\ i < j
          /\ Len(fed[i].trace.data) > 0
          /\ Len(fed[j].trace.data) > 0

(* C8  Watermark: frame_timestamp starts at 0, never decreases and is      *)
(* never reset, and is always 512 times the number of frames written.      *)
C8_Watermark ==
    /\ frame_timestamp = 0
    /\ [](frame_timestamp = FRAME_LENGTH * Len(frames))
    /\ [][frame_timestamp' >= frame_timestamp]_vars

\* The watermark has advanced over several frames and a trace was dropped
\* after that.
C8_Witness ==
    /\ frame_timestamp >= 3 * FRAME_LENGTH
    /\ \E i \in 1..Len(fed) : fed[i].dropped /\ fed[i].w0 >= 2 * FRAME_LENGTH

(* C9  The sequencer never aborts the run: whatever the trace's timestamp  *)
(* (any u64) and sample count, the trace is either rejected as stale or    *)
(* its frames are written and the loop goes on to the next trace.          *)
C9_NeverAborts == status \in {"running", "done"}

(* C10  Single-window case: a trace that is not dropped, at offset         *)
(* timestamp - W after gap filling, with n samples and offset + n <= 512   *)
(* (offset + n = 512 included), gets exactly one data frame, with          *)
(* frame_start = W, data_offset = offset, data_size = n and the whole      *)
(* trace as samples, and W advances by 512 for it and no further.          *)
C10_SingleWindow ==
    \A i \in Accepted :
        LET e == fed[i]
            w == e.w0 + GapCount(e) * FRAME_LENGTH
            offset == e.trace.timestamp - w
            n == Len(e.trace.data)
        IN offset + n <= FRAME_LENGTH =>
              /\ e.hi = e.lo + GapCount(e) + 1
              /\ frames[e.hi] = [frame_start |-> w,
                                 data_size   |-> n,
                                 data_offset |-> offset,
                                 data        |-> e.trace.data]
              /\ e.w1 = w + FRAME_LENGTH

\* A trace whose last sample sits at the last tick of its window.
C10_Witness ==
    \E i \in Accepted :
        /\ Len(fed[i].trace.data) > 0
        /\ FineTime(fed[i].trace.timestamp) + Len(fed[i].trace.data)
              = FRAME_LENGTH
        /\ fed[i].hi > fed[i].lo

(* C11  Multi-window case: a trace that is not dropped, with               *)
(* offset + n > 512, gets a head frame with data_offset = offset and       *)
(* data_size = 512 - offset, then continuation frames with data_offset 0   *)
(* and data_size = min(512, samples remaining); every frame of the trace   *)
(* but the last is filled to the end of its window.                        *)
Min(a, b) == IF a < b THEN a ELSE b

C11_MultiWindow ==
    \A i \in Accepted :
        LET e == fed[i]
            w == e.w0 + GapCount(e) * FRAME_LENGTH
            offset == e.trace.timestamp - w
            n == Len(e.trace.data)
            head == e.lo + GapCount(e) + 1
            \* samples in the frames before frame k
            before(k) == (FRAME_LENGTH - offset) + (k - head - 1) * FRAME_LENGTH
        IN offset + n > FRAME_LENGTH =>
              /\ e.hi > head
              /\ frames[head] =
                    [frame_start |-> w,
                     data_size   |-> FRAME_LENGTH - offset,
                     data_offset |-> offset,
                     data        |-> SubSeq(e.trace.data, 1, FRAME_LENGTH - offset)]
              /\ \A k \in (head + 1)..e.hi :
                    /\ n - before(k) >= 1
                    /\ frames[k] =
                          [frame_start |-> w + (k - head) * FRAME_LENGTH,
                           data_size   |-> Min(FRAME_LENGTH, n - before(k)),
                           data_offset |-> 0,
                           data        |->
                              SubSeq(e.trace.data, before(k) + 1,
                                     before(k) + Min(FRAME_LENGTH, n - before(k)))]
              /\ n - before(e.hi) <= FRAME_LENGTH
              /\ \A k \in head..(e.hi - 1) :
                    frames[k].data_offset + frames[k].data_size = FRAME_LENGTH

\* A trace from offset 511: a head frame of one sample, two full frames and
\* a last, partial one.
C11_Witness ==
    \E i \in Accepted :
        /\ FineTime(fed[i].trace.timestamp) = FRAME_LENGTH - 1
        /\ fed[i].hi - fed[i].lo - GapCount(fed[i]) = 4
        /\ frames[fed[i].hi].data_size < FRAME_LENGTH

(* C12  Emission order: the frames of a trace are written in the order     *)
(* empty-fill frames, head (or single) frame, continuation frames, and all *)
(* the frames of a trace are written before the next trace is read.        *)

\* Frame k as a frame of a trace with timestamp t: 0 for a frame of a
\* window before the trace's, 1 for the frame of its window, 2 for a frame
\* of a later window.
FrameRole(k, t) ==
    IF frames[k].frame_start + FRAME_LENGTH <= t THEN 0
    ELSE IF frames[k].frame_start <= t THEN 1
    ELSE 2

C12_InOrder ==
    /\ \A i \in 1..Len(fed) :
          /\ fed[i].lo = (IF i = 1 THEN 0 ELSE fed[i - 1].hi)
          /\ fed[i].lo <= fed[i].hi
    /\ Len(fed) > 0 => fed[Len(fed)].hi = Len(frames)
    /\ Len(fed) = 0 => Len(frames) = 0
    /\ \A i \in Accepted :
          LET e == fed[i]
              t == e.trace.timestamp
          IN /\ \A k1, k2 \in (e.lo + 1)..e.hi :
                   k1 < k2 => /\ FrameRole(k1, t) <= FrameRole(k2, t)
                              /\ ~(FrameRole(k1, t) = 1 /\ FrameRole(k2, t) = 1)
             /\ \E k \in (e.lo + 1)..e.hi : FrameRole(k, t) = 1
             /\ \A k \in (e.lo + 1)..e.hi :
                   /\ FrameRole(k, t) = 0 => Len(frames[k].data) = 0
                   /\ FrameRole(k, t) = 2 =>
                         /\ Len(frames[k].data) > 0
                         /\ frames[k].data_offset = 0

C12_EmissionOrder ==
    /\ []C12_InOrder
    /\ [][/\ Len(frames') >= Len(frames)
          /\ SubSeq(frames', 1, Len(frames)) = frames
          /\ Len(fed') <= Len(fed) + 1
          /\ SubSeq(fed', 1, Len(fed)) = fed]_vars

\* Two traces were sequenced, the second with empty-fill, head and
\* continuation frames.
C12_Witness ==
    \E i \in Accepted :
        /\ i > 1
        /\ ~fed[i - 1].dropped
        /\ fed[i - 1].hi > fed[i - 1].lo
        /\ GapCount(fed[i]) > 0
        /\ fed[i].hi - fed[i].lo - GapCount(fed[i]) >= 2

(* C13  Offset range under machine arithmetic: for every trace timestamp t *)
(* of the u64 range with t >= W, the gap-filling loop, whose guard adds    *)
(* W + 512 in u64, ends and leaves 0 <= t - W < 512, also for timestamps   *)
(* within 512 ticks of the largest u64.                                    *)
C13_OffsetInRange ==
    \A i \in Accepted :
        LET t == fed[i].trace.timestamp
            r == GapFill([w |-> fed[i].w0, out |-> << >>, end |-> "ok"],
                         t, {}, overflow_checks)
        IN /\ r.end = "ok"
           /\ 0 <= t - r.w
           /\ t - r.w < FRAME_LENGTH

(* C14  Termination: the continuation loop finishes for every trace, each  *)
(* iteration emitting a frame with data_size >= 1 and advancing the cursor *)
(* by it, and for every finite sequence of finite traces the run ends      *)
(* after writing finitely many frames: no loop of the run is ever found    *)
(* repeating a state, and every frame after a trace's first data frame     *)
(* carries at least one sample.                                            *)
C14_Terminates ==
    /\ status # "hung"
    /\ \A i \in Accepted :
           \A k \in (fed[i].lo + GapCount(fed[i]) + 2)..fed[i].hi :
               frames[k].data_size >= 1

(* C15  Payload length: every frame written carries exactly data_size      *)
(* samples, and they are one contiguous slice of the samples of a single   *)
(* trace, the one the frame was written for; an empty-fill frame carries   *)
(* none.                                                                   *)
C15_PayloadLength ==
    /\ \A k \in 1..Len(frames) :
          \E i \in Accepted : fed[i].lo < k /\ k <= fed[i].hi
    /\ \A i \in Accepted :
          \A k \in (fed[i].lo + 1)..fed[i].hi :
              LET f == frames[k]
                  samples == fed[i].trace.data
                  from == FirstTick(k) - fed[i].trace.timestamp
              IN /\ Len(f.data) = f.data_size
                 /\ k <= fed[i].lo + GapCount(fed[i]) => f.data = << >>
                 /\ f.data_size > 0 =>
                       /\ from >= 0
                       /\ from + f.data_size <= Len(samples)
                       /\ f.data = SubSeq(samples, from + 1, from + f.data_size)

\* An empty-fill frame, a full frame and a last, partly filled frame of a
\* trace that runs over several windows.
C15_Witness ==
    \E i \in Accepted :
        /\ GapCount(fed[i]) > 0
        /\ \E k \in (fed[i].lo + 1)..fed[i].hi :
              frames[k].data_size = FRAME_LENGTH
        /\ frames[fed[i].hi].data_offset = 0
        /\ frames[fed[i].hi].data_size > 0
        /\ frames[fed[i].hi].data_size < FRAME_LENGTH

(* C16  Zero-sample trace: a trace without samples and with timestamp      *)
(* t >= W is accepted and, after the empty-fill frames, gets exactly one   *)
(* frame, with data_size 0 and data_offset t mod 512; it closes its window *)
(* (W is 512 past the window's start afterwards), so a later trace that    *)
(* starts in the same window is dropped.  A first trace {1024, []} gives   *)
(* the frames at 0, 512 and 1024, all with data_size 0: the loop body,     *)
(* entered with the watermark of a new run, is evaluated on that trace.    *)
C16_ZeroSampleTrace ==
    /\ \A i \in 1..Len(fed) :
          LET e == fed[i]
              t == e.trace.timestamp
              g == GapCount(e)
          IN (Len(e.trace.data) = 0 /\ t >= e.w0) =>
                /\ ~e.dropped
                /\ e.hi = e.lo + g + 1
                /\ \A k \in (e.lo + 1)..(e.lo + g) : frames[k].data_size = 0
                /\ frames[e.hi] = [frame_start |-> WindowOf(t),
                                   data_size   |-> 0,
                                   data_offset |-> FineTime(t),
                                   data        |-> << >>]
                /\ e.w1 = WindowOf(t) + FRAME_LENGTH
                /\ \A j \in (i + 1)..Len(fed) :
                      WindowOf(fed[j].trace.timestamp) = WindowOf(t)
                          => fed[j].dropped
    /\ LET first == Trace(2 * FRAME_LENGTH, 0)
           r == Sequence(0, first, overflow_checks)
       IN /\ ~Stale(first.timestamp, 0)
          /\ r.end = "ok"
          /\ r.out = << Frame_new(0), Frame_new(FRAME_LENGTH),
                        [frame_start |-> 2 * FRAME_LENGTH, data_size |-> 0,
                         data_offset |-> 0, data |-> << >>] >>
          /\ r.w = 3 * FRAME_LENGTH

\* A trace without samples from the last tick of the third window got its
\* frame behind empty-fill frames, and a trace with samples that starts in
\* the same window came after it.
C16_Witness ==
    \E i \in 1..Len(fed) :
        /\ Len(fed[i].trace.data) = 0
        /\ ~fed[i].dropped
        /\ FineTime(fed[i].trace.timestamp) > 0
        /\ GapCount(fed[i]) > 0
        /\ \E j \in (i + 1)..Len(fed) :
              /\ WindowOf(fed[j].trace.timestamp)
                    = WindowOf(fed[i].trace.timestamp)
              /\ Len(fed[j].trace.data) > 0

(* C17  Truncated input: when the file ends within a record (within the    *)
(* timestamp, within the sample count, or before all the samples the count *)
(* declares), read_next_trace returns None, as it does at a clean end of   *)
(* file; the run ends normally, with the frames of the complete traces     *)
(* before it written and no frame for the partial record.                  *)
C17_TruncatedInput ==
    /\ \A record \in Traces :
          \A avail \in Avails(record) :
              /\ read_next_trace(record, avail, 0).kind = "None"
              /\ read_next_trace(record, 0, 0).kind = "None"
    /\ last_io.kind = "truncated" =>
          /\ status = "done"
          /\ Len(fed) = last_io.traces
          /\ Len(frames) = last_io.frames
          /\ \A i \in 1..Len(fed) : fed[i].trace \in Traces
          /\ Len(fed) > 0 => fed[Len(fed)].hi = Len(frames)
          /\ frames = RunOfAccepted(Len(AcceptedTraces)).out
          /\ frame_timestamp = RunOfAccepted(Len(AcceptedTraces)).w

\* The file ended within a record that came after two complete traces, the
\* second of them written as several frames.
C17_Witness ==
    /\ last_io.kind = "truncated"
    /\ status = "done"
    /\ Len(fed) = 2
    /\ ~fed[2].dropped
    /\ fed[2].hi - fed[2].lo >= 3

(* C18  Fatal I/O: when a write of a frame fails, or a read of the input   *)
(* fails with an error other than the end of the file, the run aborts      *)
(* there: no trace is read and no frame written after that, and the frames *)
(* written before are left as they are.                                    *)
C18_Aborted ==
    /\ last_io.kind \in {"read_error", "write_error"} <=> status = "aborted"
    /\ status = "aborted" =>
          /\ Len(fed) = last_io.traces
          /\ Len(frames) = last_io.frames

C18_FatalIO ==
    /\ []C18_Aborted
    /\ [][status = "aborted" => status' = "aborted"]_vars
    /\ [][(status # "aborted" /\ status' = "aborted") =>
              /\ Len(frames') >= Len(frames)
              /\ SubSeq(frames', 1, Len(frames)) = frames
              /\ (last_io'.kind = "read_error" =>
                     frames' = frames /\ fed' = fed)]_vars

\* The third write for the second trace of a run failed, after frames of
\* both traces had been written.
C18_Witness ==
    /\ status = "aborted"
    /\ last_io.kind = "write_error"
    /\ Len(fed) = 2
    /\ fed[1].hi > 0
    /\ Len(frames) >= fed[2].lo + 2

(* C19  After a trace with timestamp t and n samples that was not dropped, *)
(* the watermark is the smallest multiple of 512 that is greater than t    *)
(* and at least t + n; it is past every window the trace has a frame in,   *)
(* and max(1, ceil((t mod 512 + n) / 512)) data frames were written for    *)
(* the trace.                                                              *)
CeilDiv(a, b) == (a + b - 1) \div b
Max(a, b) == IF a > b THEN a ELSE b

C19_WatermarkAfterTrace ==
    \A i \in Accepted :
        LET e == fed[i]
            t == e.trace.timestamp
            n == Len(e.trace.data)
            closes(w) == w % FRAME_LENGTH = 0 /\ w > t /\ w >= t + n
        IN /\ closes(e.w1)
           /\ ~closes(e.w1 - FRAME_LENGTH)
           /\ \A k \in (e.lo + 1)..e.hi :
                 frames[k].frame_start + FRAME_LENGTH <= e.w1
           /\ e.hi - e.lo - GapCount(e)
                 = Max(1, CeilDiv(FineTime(t) + n, FRAME_LENGTH))
           /\ Cardinality(DataFrames(e))
                 = Max(1, CeilDiv(FineTime(t) + n, FRAME_LENGTH))

\* A trace without samples, a trace that ends with its window and a trace
\* over four windows have been sequenced.
C19_Witness ==
    /\ \E i \in Accepted : Len(fed[i].trace.data) = 0
    /\ \E i \in Accepted :
          /\ Len(fed[i].trace.data) > 0
          /\ FineTime(fed[i].trace.timestamp) + Len(fed[i].trace.data)
                = FRAME_LENGTH
    /\ \E i \in Accepted : fed[i].hi - fed[i].lo - GapCount(fed[i]) = 4

(* C20  Every slice of a trace's samples is within range: the head slice   *)
(* [0, 512 - offset) is taken only when n >= 512 - offset, and each        *)
(* continuation slice [cursor, cursor + 512) or [cursor, n) has            *)
(* cursor <= n; the cursor never passes the end of the trace and ends at   *)
(* n.  The cursor after frame k is the number of samples in the trace's    *)
(* frames up to k.                                                         *)
C20_SlicesInRange ==
    /\ status # "panicked"
    /\ \A i \in Accepted :
          LET e == fed[i]
              n == Len(e.trace.data)
              head == e.lo + GapCount(e) + 1
              offset == e.trace.timestamp - frames[head].frame_start
          IN /\ ~FitsInFrame(n, offset) =>
                   /\ n >= FRAME_LENGTH - offset
                   /\ frames[head].data_size = FRAME_LENGTH - offset
                   /\ \A k \in (head + 1)..e.hi :
                         LET cursor == SampleCount(e.lo, k - 1)
                         IN /\ cursor < n
                            /\ cursor + frames[k].data_size <= n
                            /\ frames[k].data_size = Min(FRAME_LENGTH, n - cursor)
             /\ SampleCount(e.lo, e.hi) = n

\* A head slice that is the whole trace (offset + n = 512) and a trace with
\* a head slice, full continuation slices and a last slice to the end.
C20_Witness ==
    /\ \E i \in Accepted :
          /\ Len(fed[i].trace.data) > 0
          /\ ~FitsInFrame(Len(fed[i].trace.data),
                          FineTime(fed[i].trace.timestamp))
          /\ fed[i].hi = fed[i].lo + GapCount(fed[i]) + 1
    /\ \E i \in Accepted :
          /\ fed[i].hi - fed[i].lo - GapCount(fed[i]) >= 3
          /\ frames[fed[i].hi].data_size < FRAME_LENGTH

====
